---- MODULE Spec2Model ----
(***************************************************************************)
(* Model of the LiDAR Flask data service:                                  *)
(*   parser.py : parse_header, build_dtype, read_pcd                       *)
(*   app.py    : handle_mqtt_message, count_fps_datamesh, process_message, *)
(*               handle_connect, handle_subscribe                          *)
(*                                                                         *)
(* Text is modelled at token level: a header line is the sequence of its   *)
(* space-separated tokens (ln.split(' ')), an empty sequence is the empty  *)
(* line.  The character-level tests of the code (startswith, the regular   *)
(* expression, float(), int(), lower()) are operators over tokens.         *)
(***************************************************************************)
EXTENDS Integers, Sequences, FiniteSets, TLC

(***************************************************************************)
(* Token lexicon                                                           *)
(***************************************************************************)

\* tokens made only of \w characters: group 1 of the regular expression
WordTokens ==
    {"VERSION", "FIELDS", "SIZE", "TYPE", "COUNT", "WIDTH", "HEIGHT",
     "POINTS", "DATA", "Topic", "Time", "minx", "maxx", "miny", "maxy",
     "minz", "maxz", "end", "x", "y", "z", "intensity", "rgb", "F", "U", "I",
     "ascii", "binary", "binary_compressed", "lidar", "0", "1", "2", "3",
     "4", "5", "6", "8", "60000000", "120000000"}

\* tokens made only of characters of the class [\w\s\.\/] (group 2); the
\* other tokens used, "-1.0" and "#", start with a character outside it
ValueTokens ==
    WordTokens \cup {".7", "1.0", "2.0", "3.0", "4.0", "5.0", "6.0", "7.5",
                     "1.00", "2.00", "3.00", "50.00"}

\* str.lower()
Lower(t) ==
    CASE t = "VERSION" -> "version"
      [] t = "FIELDS"  -> "fields"
      [] t = "SIZE"    -> "size"
      [] t = "TYPE"    -> "type"
      [] t = "COUNT"   -> "count"
      [] t = "WIDTH"   -> "width"
      [] t = "HEIGHT"  -> "height"
      [] t = "POINTS"  -> "points"
      [] t = "DATA"    -> "data"
      [] t = "Topic"   -> "topic"
      [] t = "Time"    -> "time"
      [] t = "F"       -> "f"
      [] t = "U"       -> "u"
      [] t = "I"       -> "i"
      [] OTHER         -> t

\* int(t): the tokens int() accepts, with their values
IntTokens == {"0", "1", "2", "3", "4", "5", "6", "8", "60000000", "120000000"}

IntOf(t) ==
    CASE t = "0" -> 0 [] t = "1" -> 1 [] t = "2" -> 2 [] t = "3" -> 3
      [] t = "4" -> 4 [] t = "5" -> 5 [] t = "6" -> 6 [] t = "8" -> 8
      [] t = "60000000" -> 60000000 [] t = "120000000" -> 120000000

\* float(t): the tokens float() accepts; values are kept in tenths
FloatTokens ==
    IntTokens \cup {".7", "1.0", "2.0", "3.0", "4.0", "5.0", "6.0", "7.5", "-1.0",
                    "1.00", "2.00", "3.00", "50.00"}

FloatOf(t) ==
    CASE t \in IntTokens -> 10 * IntOf(t)
      [] t = ".7"   -> 7
      [] t = "1.0"  -> 10 [] t = "2.0" -> 20 [] t = "3.0" -> 30
      [] t = "4.0"  -> 40 [] t = "5.0" -> 50 [] t = "6.0" -> 60
      [] t = "7.5"  -> 75
      [] t = "-1.0" -> -10
      [] t = "1.00" -> 10 [] t = "2.00" -> 20 [] t = "3.00" -> 30
      [] t = "50.00" -> 500

\* len(ln): the tokens and the single spaces between them
RECURSIVE LineLen(_)
LineLen(ln) ==
    IF ln = <<>> THEN 0
    ELSE Len(ln[1]) + (IF Len(ln) > 1 THEN 1 + LineLen(Tail(ln)) ELSE 0)

\* ln.startswith(p), for the prefixes the code tests
StartsWithHash(ln) == ln # <<>> /\ ln[1] = "#"
StartsWithEnd(ln) == ln # <<>> /\ ln[1] = "end"
StartsWithDATA(ln) == ln # <<>> /\ ln[1] = "DATA"
StartsWithTimeSp(ln) == Len(ln) >= 2 /\ ln[1] = "Time"

(***************************************************************************)
(* parser.py: parse_header                                                 *)
(***************************************************************************)

\* re.match('(\w+)\s+([\w\s\.\/]+)', ln) succeeds
ReMatch(ln) == Len(ln) >= 2 /\ ln[1] \in WordTokens /\ ln[2] \in ValueTokens

\* group 2: the longest run of class characters after the key
RECURSIVE CleanPrefix(_)
CleanPrefix(toks) ==
    IF toks = <<>> \/ toks[1] \notin ValueTokens THEN <<>>
    ELSE <<toks[1]>> \o CleanPrefix(Tail(toks))

ReKey(ln) == Lower(ln[1])
ReValue(ln) == CleanPrefix(Tail(ln))

\* metadata = {'objects': []}
EmptyMetadata == [objects |-> <<>>]

\* d[k] = v
DictSet(d, k, v) == (k :> v) @@ d

\* the six float() conversions and the appended positions dictionary
BBoxOK(ln) == Len(ln) >= 6 /\ \A i \in 1..6 : ln[i] \in FloatTokens

BBoxOf(ln) ==
    [minx |-> FloatOf(ln[1]), maxx |-> FloatOf(ln[2]),
     miny |-> FloatOf(ln[3]), maxy |-> FloatOf(ln[4]),
     minz |-> FloatOf(ln[5]), maxz |-> FloatOf(ln[6]),
     class |-> "Object"]

\* the key/value dispatch of one matched line
Dispatch(st, key, value) ==
    CASE key = "version" ->
           [st EXCEPT !.md = DictSet(st.md, key, value)]
      [] key \in {"fields", "type"} ->
           [st EXCEPT !.md = DictSet(st.md, key, value)]
      [] key \in {"size", "count"} ->
           \* map(int, ...) is lazy: the tokens are converted when iterated
           [st EXCEPT !.md = DictSet(st.md, key, value)]
      [] key \in {"width", "height", "points"} ->
           IF Len(value) = 1 /\ value[1] \in IntTokens
           THEN [st EXCEPT !.md = DictSet(st.md, key, IntOf(value[1]))]
           ELSE [st EXCEPT !.err = "ValueError"]
      [] key = "viewpoint" ->
           [st EXCEPT !.md = DictSet(st.md, key, value)]
      [] key = "data" ->
           [st EXCEPT !.md = DictSet(st.md, key, [i \in 1..Len(value) |-> Lower(value[i])])]
      [] key = "minx" ->
           [st EXCEPT !.searchSwitch = TRUE]
      [] key \in {"topic", "time"} ->
           [st EXCEPT !.md = DictSet(st.md, key, value)]
      [] key = "end" ->
           [st EXCEPT !.searchSwitch = FALSE]
      [] OTHER -> st

\* one iteration of "for ln in lines"
HeaderLine(st, ln) ==
    IF st.err # "none" THEN st
    ELSE IF StartsWithHash(ln) \/ LineLen(ln) < 2 THEN st
    ELSE
      LET capture == ~StartsWithEnd(ln) /\ st.searchSwitch
          st1 == IF ~capture THEN st
                 ELSE IF BBoxOK(ln)
                      THEN [st EXCEPT !.md = DictSet(st.md, "objects",
                                               Append(st.md.objects, BBoxOf(ln)))]
                      ELSE [st EXCEPT !.err = IF Len(ln) < 6 /\ \A i \in 1..Len(ln) : ln[i] \in FloatTokens
                                               THEN "IndexError" ELSE "ValueError"]
      IN IF st1.err # "none" THEN st1
         ELSE IF ~ReMatch(ln) THEN st1
         ELSE Dispatch(st1, ReKey(ln), ReValue(ln))

RECURSIVE HeaderLoop(_, _)
HeaderLoop(st, lines) ==
    IF lines = <<>> THEN st
    ELSE HeaderLoop(HeaderLine(st, lines[1]), Tail(lines))

\* the defaults applied after the loop
HeaderDefaults(st) ==
    IF st.err # "none" THEN st
    ELSE IF "count" \notin DOMAIN st.md /\ "fields" \notin DOMAIN st.md
         THEN [st EXCEPT !.err = "KeyError"]
    ELSE
      LET m1 == IF "count" \in DOMAIN st.md THEN st.md
                ELSE DictSet(st.md, "count", [i \in 1..Len(st.md.fields) |-> "1"])
          m2 == IF "viewpoint" \in DOMAIN m1 THEN m1
                ELSE DictSet(m1, "viewpoint", <<"0.0", "0.0", "0.0", "1.0", "0.0", "0.0", "0.0">>)
          m3 == IF "version" \in DOMAIN m2 THEN m2
                ELSE DictSet(m2, "version", <<".7">>)
      IN [st EXCEPT !.md = m3]

\* parse_header(lines): [err, md, searchSwitch]; err = "none" when it returns
HeaderStart == [md |-> EmptyMetadata, searchSwitch |-> FALSE, err |-> "none"]
parse_header(lines) == HeaderDefaults(HeaderLoop(HeaderStart, lines))

(***************************************************************************)
(* parser.py: build_dtype                                                  *)
(***************************************************************************)

\* pcd_type_to_numpy_type: the (type, size) pairs of numpy_pcd_type_mappings
PcdTypes ==
    {<<"F", 4>>, <<"F", 8>>, <<"U", 1>>, <<"U", 2>>, <<"U", 4>>, <<"U", 8>>,
     <<"I", 2>>, <<"I", 4>>, <<"I", 8>>}

pcd_type_to_numpy_type(t, s) ==
    CASE t = "F" /\ s = 4 -> "float32"
      [] t = "F" /\ s = 8 -> "float64"
      [] t = "U" /\ s = 1 -> "uint8"
      [] t = "U" /\ s = 2 -> "uint16"
      [] t = "U" /\ s = 4 -> "uint32"
      [] t = "U" /\ s = 8 -> "uint64"
      [] t = "I" /\ s = 2 -> "int16"
      [] t = "I" /\ s = 4 -> "int32"
      [] t = "I" /\ s = 8 -> "int64"

\* np.dtype(x).itemsize of a scalar type
ScalarSize(tp) ==
    CASE tp = "uint8" -> 1
      [] tp \in {"uint16", "int16"} -> 2
      [] tp \in {"float32", "uint32", "int32"} -> 4
      [] tp \in {"float64", "uint64", "int64"} -> 8

\* '%04d' % i
Pad4(i) ==
    IF i < 10 THEN "000" \o ToString(i)
    ELSE IF i < 100 THEN "00" \o ToString(i)
    ELSE IF i < 1000 THEN "0" \o ToString(i)
    ELSE ToString(i)

\* ['%s_%04d' % (f, i) for i in range(c)]
FlatNamesFromOne(f, c) == [k \in 1..c |-> f \o "_" \o Pad4(k)]
FlatNames(f, c) == [k \in 1..c |-> f \o "_" \o Pad4(k - 1)]

\* the names and types one source field appends
FieldNames(f, c) == IF c = 1 THEN <<f>> ELSE FlatNames(f, c)
FieldTypes(np_type, c) == IF c = 1 THEN <<np_type>> ELSE [k \in 1..c |-> np_type]

\* the zip() loop: round i draws from fields, count, type, size in that
\* order and stops at the first exhausted one; the int() of a size or count
\* token runs when the token is drawn
RECURSIVE DtypeLoop(_, _, _)
DtypeLoop(md, i, acc) ==
    IF i > Len(md.fields) \/ i > Len(md.count) THEN acc
    ELSE IF md.count[i] \notin IntTokens THEN [acc EXCEPT !.err = "ValueError"]
    ELSE IF i > Len(md.type) \/ i > Len(md.size) THEN acc
    ELSE IF md.size[i] \notin IntTokens THEN [acc EXCEPT !.err = "ValueError"]
    ELSE
      LET f == md.fields[i]
          c == IntOf(md.count[i])
          t == md.type[i]
          s == IntOf(md.size[i])
      IN IF <<t, s>> \notin PcdTypes THEN [acc EXCEPT !.err = "KeyError"]
         ELSE DtypeLoop(md, i + 1,
                [acc EXCEPT !.names = @ \o FieldNames(f, c),
                            !.types = @ \o FieldTypes(pcd_type_to_numpy_type(t, s), c)])

\* np.dtype(list(zip(fieldnames, typenames))) rejects a repeated field name
NoDuplicate(names) == \A i, j \in 1..Len(names) : names[i] = names[j] => i = j

\* build_dtype(metadata): [err, names, types]; err = "none" when it returns
build_dtype(md) ==
    IF {"fields", "count", "type", "size"} \ DOMAIN md # {}
    THEN [err |-> "KeyError", names |-> <<>>, types |-> <<>>]
    ELSE LET r == DtypeLoop(md, 1, [err |-> "none", names |-> <<>>, types |-> <<>>])
         IN IF r.err = "none" /\ ~NoDuplicate(r.names)
            THEN [r EXCEPT !.err = "ValueError"]
            ELSE r

\* dtype.itemsize
RECURSIVE SumSizes(_)
SumSizes(types) ==
    IF types = <<>> THEN 0 ELSE ScalarSize(types[1]) + SumSizes(Tail(types))

itemsize(dtype) == SumSizes(dtype.types)

(***************************************************************************)
(* parser.py: read_pcd(content), isfilename = False                        *)
(*                                                                         *)
(* content is [lines, body]: lines are the lines of content.split(b'\n')   *)
(* up to and including the first one that starts with b'Time ' (all of     *)
(* them when there is none), body is the bytes after that line.  The first *)
(* occurrence of b'Time ' in content is taken to be that line's start.     *)
(***************************************************************************)

\* minutes_cal = time_value/6e7
MicrosPerMinute == 60000000

\* lines[1..i]: the header list after header.append(ln.decode())
Prefix(lines, i) == SubSeq(lines, 1, i)

\* the state of the loop before its first iteration: nothing is bound
ScanStart ==
    [err |-> "none", hasMetadata |-> FALSE, metadata |-> EmptyMetadata,
     hasDtype |-> FALSE, dtype |-> [err |-> "none", names |-> <<>>, types |-> <<>>],
     broke |-> FALSE, topic_value |-> <<>>, minute |-> 0]

\* the branch of a line that starts with b'DATA'
ScanDATA(st, header) ==
    LET h == parse_header(header)
        d == build_dtype(h.md)
    IN IF h.err # "none" THEN [st EXCEPT !.err = h.err]
       ELSE IF d.err # "none"
            THEN [st EXCEPT !.err = d.err, !.hasMetadata = TRUE, !.metadata = h.md]
       ELSE [st EXCEPT !.hasMetadata = TRUE, !.metadata = h.md,
                       !.hasDtype = TRUE, !.dtype = d]

\* the branch of a line that starts with b'Time '
ScanTime(st, header) ==
    LET h == parse_header(header)
    IN IF h.err # "none" THEN [st EXCEPT !.err = h.err]
       ELSE IF "topic" \notin DOMAIN h.md \/ "time" \notin DOMAIN h.md
            THEN [st EXCEPT !.err = "KeyError"]
       ELSE IF ~(Len(h.md.time) = 1 /\ h.md.time[1] \in IntTokens)
            THEN [st EXCEPT !.err = "ValueError"]
       ELSE [st EXCEPT !.hasMetadata = TRUE, !.metadata = h.md, !.broke = TRUE,
                       !.topic_value = h.md.topic,
                       !.minute = IntOf(h.md.time[1]) \div MicrosPerMinute]

\* for ln in lines: ... break
RECURSIVE ScanLoop(_, _, _)
ScanLoop(lines, i, st) ==
    IF i > Len(lines) \/ st.err # "none" \/ st.broke THEN st
    ELSE IF StartsWithDATA(lines[i])
         THEN ScanLoop(lines, i + 1, ScanDATA(st, Prefix(lines, i)))
    ELSE IF StartsWithTimeSp(lines[i])
         THEN ScanLoop(lines, i + 1, ScanTime(st, Prefix(lines, i)))
    ELSE ScanLoop(lines, i + 1, st)

\* one row of np.fromstring(buf, dtype): column name -> its bytes, in
\* buffer (little-endian) order
RECURSIVE RowCols(_, _, _, _)
RowCols(bytes, names, types, k) ==
    IF k > Len(names) THEN <<>>
    ELSE <<[name |-> names[k], type |-> types[k],
            bytes |-> SubSeq(bytes, 1, ScalarSize(types[k]))]>>
         \o RowCols(SubSeq(bytes, ScalarSize(types[k]) + 1, Len(bytes)), names, types, k + 1)

\* np.fromstring(buf, dtype) in binary mode: len(buf) // itemsize rows
FromString(buf, dtype) ==
    [r \in 1..(Len(buf) \div itemsize(dtype)) |->
        RowCols(SubSeq(buf, (r - 1) * itemsize(dtype) + 1, r * itemsize(dtype)),
                dtype.names, dtype.types, 1)]

FromStringOK(buf, dtype) == itemsize(dtype) > 0 /\ Len(buf) % itemsize(dtype) = 0

\* df.columns
Columns(row) == [k \in 1..Len(row) |-> row[k].name]
HasColumn(names, c) == \E k \in 1..Len(names) : names[k] = c

\* df[c] = v on one row: replaces the column, or appends it at the end
SetCol(row, c, v) ==
    IF HasColumn(Columns(row), c)
    THEN [k \in 1..Len(row) |-> IF row[k].name = c THEN v ELSE row[k]]
    ELSE Append(row, v)

\* df.drop(c, axis=1)
RECURSIVE DropCol(_, _)
DropCol(row, c) ==
    IF row = <<>> THEN <<>>
    ELSE IF row[1].name = c THEN DropCol(Tail(row), c)
    ELSE <<row[1]>> \o DropCol(Tail(row), c)

\* df[c] of one row
ColOf(row, c) == row[CHOOSE k \in 1..Len(row) : row[k].name = c]

\* the bits of a little-endian byte string, most significant first
BitsOf(bytes) ==
    [j \in 1..(8 * Len(bytes)) |->
        (bytes[Len(bytes) - ((j - 1) \div 8)] \div (2 ^ (7 - ((j - 1) % 8)))) % 2]

\* the number a bit string denotes
RECURSIVE BitsValue(_)
BitsValue(bits) ==
    IF bits = <<>> THEN 0
    ELSE 2 * BitsValue(SubSeq(bits, 1, Len(bits) - 1)) + bits[Len(bits)]

\* the first k bits of a bit string as a number, rounded to nearest, ties to
\* even, on the bits that follow; a string shorter than k is padded with zeros
RoundKeep(bits, k) ==
    IF k < 0 THEN 0
    ELSE LET n == Len(bits)
             kept == IF k <= n THEN BitsValue(SubSeq(bits, 1, k))
                     ELSE BitsValue(bits) * (2 ^ (k - n))
             guard == IF k + 1 <= n THEN bits[k + 1] ELSE 0
             sticky == \E j \in (k + 2)..n : bits[j] = 1
         IN IF guard = 1 /\ (sticky \/ kept % 2 = 1) THEN kept + 1 ELSE kept

\* the little-endian bytes of the float32 with sign s, exponent field e and
\* fraction m
Float32Bytes(s, e, m) ==
    <<m % 256, (m \div 256) % 256, (e % 2) * 128 + (m \div 65536), s * 128 + (e \div 2)>>

\* the float32 nearest to the integer of sign s and magnitude bits mag
MagnitudeToFloat32(s, mag) ==
    IF \A j \in 1..Len(mag) : mag[j] = 0 THEN Float32Bytes(0, 0, 0)
    ELSE LET p == CHOOSE j \in 1..Len(mag) : mag[j] = 1 /\ \A i \in 1..(j - 1) : mag[i] = 0
             sig == SubSeq(mag, p, Len(mag))
             q == RoundKeep(sig, 24)
             e == IF q = 2 ^ 24 THEN Len(sig) ELSE Len(sig) - 1
             m == IF q = 2 ^ 24 THEN 0 ELSE q - 2 ^ 23
         IN Float32Bytes(s, 127 + e, m)

\* the magnitude of a negative two's complement number: the bits above the
\* lowest set bit are inverted
Negated(bits) ==
    LET low == CHOOSE j \in 1..Len(bits) : bits[j] = 1 /\ \A i \in (j + 1)..Len(bits) : bits[i] = 0
    IN [j \in 1..Len(bits) |-> IF j < low THEN 1 - bits[j] ELSE bits[j]]

\* float64 to float32
DoubleToFloat32(bits) ==
    LET s == bits[1]
        ex == BitsValue(SubSeq(bits, 2, 12))
        frac == SubSeq(bits, 13, 64)
        sig == <<1>> \o frac
        e == ex - 1023
    IN IF ex = 2047
       THEN IF \A j \in 1..52 : frac[j] = 0
            THEN Float32Bytes(s, 255, 0)
            ELSE LET top == BitsValue(SubSeq(frac, 1, 23))
                 IN Float32Bytes(s, 255, IF top < 2 ^ 22 THEN top + 2 ^ 22 ELSE top)
       ELSE IF ex = 0 THEN Float32Bytes(s, 0, 0)
       ELSE IF e > 127 THEN Float32Bytes(s, 255, 0)
       ELSE IF e >= -126
            THEN LET q == RoundKeep(sig, 24)
                 IN IF q = 2 ^ 24
                    THEN IF e + 1 > 127 THEN Float32Bytes(s, 255, 0)
                         ELSE Float32Bytes(s, 127 + e + 1, 0)
                    ELSE Float32Bytes(s, 127 + e, q - 2 ^ 23)
       ELSE LET q == RoundKeep(sig, 150 + e)
            IN Float32Bytes(s, q \div (2 ^ 23), q % (2 ^ 23))

\* packed_rgb.astype(np.float32).tostring(): the four bytes of the value
\* converted to float32; a float32 column keeps its bytes
AsFloat32Bytes(col) ==
    CASE col.type = "float32" -> col.bytes
      [] col.type = "float64" -> DoubleToFloat32(BitsOf(col.bytes))
      [] col.type \in {"uint8", "uint16", "uint32", "uint64"} ->
           MagnitudeToFloat32(0, BitsOf(col.bytes))
      [] col.type \in {"int16", "int32", "int64"} ->
           IF BitsOf(col.bytes)[1] = 1
           THEN MagnitudeToFloat32(1, Negated(BitsOf(col.bytes)))
           ELSE MagnitudeToFloat32(0, BitsOf(col.bytes))

\* (packed_rgb >> 16) & 255, (packed_rgb >> 8) & 255, packed_rgb & 255
UnpackRow(row) ==
    LET b == AsFloat32Bytes(ColOf(row, "rgb"))
        r1 == SetCol(row, "red", [name |-> "red", type |-> "uint8", bytes |-> <<b[3]>>])
        r2 == SetCol(r1, "green", [name |-> "green", type |-> "uint8", bytes |-> <<b[2]>>])
        r3 == SetCol(r2, "blue", [name |-> "blue", type |-> "uint8", bytes |-> <<b[1]>>])
    IN DropCol(r3, "rgb")

\* the column index after lines 253-258
RECURSIVE DropName(_, _)
DropName(names, c) ==
    IF names = <<>> THEN <<>>
    ELSE IF names[1] = c THEN DropName(Tail(names), c)
    ELSE <<names[1]>> \o DropName(Tail(names), c)

AddName(names, c) == IF HasColumn(names, c) THEN names ELSE Append(names, c)

UnpackColumns(names) ==
    DropName(AddName(AddName(AddName(names, "red"), "green"), "blue"), "rgb")

\* lines 243-258 on df = [columns, rows]
UnpackRGB(df) ==
    IF HasColumn(df.columns, "rgb")
    THEN [columns |-> UnpackColumns(df.columns),
          rows |-> [r \in 1..Len(df.rows) |-> UnpackRow(df.rows[r])]]
    ELSE df

\* jsondict: the x, y, z and intensity columns
JsonDict(rows) ==
    [x |-> [r \in 1..Len(rows) |-> ColOf(rows[r], "x").bytes],
     y |-> [r \in 1..Len(rows) |-> ColOf(rows[r], "y").bytes],
     z |-> [r \in 1..Len(rows) |-> ColOf(rows[r], "z").bytes],
     intensity |-> [r \in 1..Len(rows) |-> ColOf(rows[r], "intensity").bytes]]

\* the result of a call that raised
Raised(e) ==
    [err |-> e, topic |-> <<>>, time |-> 0, points |-> <<>>, objects |-> <<>>,
     table |-> [columns |-> <<>>, rows |-> <<>>]]

\* lines 200-274, after the loop left st
Decode(st, content) ==
    IF ~st.hasMetadata THEN Raised("UnboundLocalError")
    ELSE IF "points" \notin DOMAIN st.metadata THEN Raised("KeyError")
    ELSE IF ~st.hasDtype THEN Raised("UnboundLocalError")
    ELSE IF "data" \notin DOMAIN st.metadata THEN Raised("KeyError")
    ELSE IF st.metadata.data = <<"ascii">> THEN Raised("TypeError")
    ELSE IF st.metadata.data = <<"binary_compressed">> THEN Raised("NotImplementedError")
    ELSE IF st.metadata.data # <<"binary">> THEN Raised("UnboundLocalError")
    ELSE IF ~st.broke THEN Raised("UnboundLocalError")
    ELSE IF ~FromStringOK(content.body, st.dtype) THEN Raised("ValueError")
    ELSE
      LET pc_data == FromString(content.body, st.dtype)
          df == UnpackRGB([columns |-> st.dtype.names, rows |-> pc_data])
      IN IF \E c \in {"x", "y", "z", "intensity"} : ~HasColumn(df.columns, c)
         THEN Raised("KeyError")
         ELSE [err |-> "none", topic |-> st.topic_value, time |-> st.minute,
               points |-> JsonDict(df.rows), objects |-> st.metadata.objects, table |-> df]

read_pcd(content) ==
    LET st == ScanLoop(content.lines, 1, ScanStart)
    IN IF st.err # "none" THEN Raised(st.err) ELSE Decode(st, content)

(***************************************************************************)
(* parser.py: read_pcd(content, isfilename=True)                           *)
(***************************************************************************)

\* ln.startswith("Time")
StartsWithTime(ln) == ln # <<>> /\ ln[1] = "Time"

\* bytes.split(sep)
RECURSIVE SplitOn(_, _, _)
SplitOn(bytes, sep, chunk) ==
    IF bytes = <<>> THEN <<chunk>>
    ELSE IF bytes[1] = sep THEN <<chunk>> \o SplitOn(Tail(bytes), sep, <<>>)
    ELSE SplitOn(Tail(bytes), sep, Append(chunk, bytes[1]))

\* np.loadtxt(f, dtype=dtype, delimiter=' ') accepts text whose non-empty
\* rows hold one numeral per layout entry
LoadTxtOK(body, dtype) ==
    \A r \in 1..Len(SplitOn(body, 10, <<>>)) :
        LET row == SplitOn(body, 10, <<>>)[r]
        IN row = <<>> \/ Len(SplitOn(row, 32, <<>>)) = Len(dtype.names)

\* the exception that ends lines 145-274 in file mode: topic_value and
\* minute are never bound there, so line 261 raises when nothing did before
FileDecodeError(md, dtype, body) ==
    IF "data" \notin DOMAIN md THEN "KeyError"
    ELSE IF md.data = <<"ascii">>
         THEN IF LoadTxtOK(body, dtype) THEN "UnboundLocalError" ELSE "ValueError"
    ELSE IF md.data = <<"binary">>
         THEN IF "points" \notin DOMAIN md THEN "KeyError"
              ELSE LET rowstep == md.points * itemsize(dtype)
                       buf == SubSeq(body, 1, IF rowstep < Len(body) THEN rowstep ELSE Len(body))
                   IN IF ~FromStringOK(buf, dtype) THEN "ValueError"
                      ELSE "UnboundLocalError"
    ELSE IF md.data = <<"binary_compressed">> THEN "NotImplementedError"
    ELSE "UnboundLocalError"

(***************************************************************************)
(* app.py: the ingestion bridge and the stream statistics                  *)
(***************************************************************************)

\* number of arrival callbacks that may be in flight at once
NumCallbacks == 2
\* capacity of threadedData: the literal 100 of "len(threadedData) < 100",
\* scaled so that a full queue is reached
Capacity == 2
\* arrivals explored in one behaviour
MaxArrivals == Capacity + 1
\* the clock advances in steps of TickSeconds up to MaxTime seconds
TickSeconds == 5
MaxTime == 15
\* count_fps_datamesh(10, message.topic)
Window == 10

Callbacks == 1..NumCallbacks
Worker == NumCallbacks + 1
\* lock = threading.Lock(): 0 when free, else the holder
Unlocked == 0

\* topic.txt, and a topic subscribed only at run time
topicsAvailable == {"lidar"}
RuntimeTopics == {"extra"}
AllTopics == topicsAvailable \cup RuntimeTopics

\* the payloads the broker delivers, by name
GoodHeader ==
    << <<"VERSION", ".7">>, <<"FIELDS", "x", "y", "z", "intensity">>,
       <<"SIZE", "4", "4", "4", "4">>, <<"TYPE", "F", "F", "F", "F">>,
       <<"COUNT", "1", "1", "1", "1">>, <<"WIDTH", "1">>, <<"HEIGHT", "1">>,
       <<"POINTS", "1">> >>

Content(p) ==
    CASE p = "binary" ->
           [lines |-> GoodHeader \o << <<"DATA", "binary">>, <<"Topic", "lidar">>,
                                       <<"Time", "60000000">> >>,
            body |-> <<0, 0, 128, 63, 0, 0, 0, 64, 0, 0, 64, 64, 0, 0, 72, 66>>]
      [] p = "compressed" ->
           [lines |-> GoodHeader \o << <<"DATA", "binary_compressed">>, <<"Topic", "lidar">>,
                                       <<"Time", "60000000">> >>,
            body |-> <<1, 2, 3>>]

Payloads == {"binary", "compressed"}

\* the local variable data of process_message before the first dequeue
NoData == [topic |-> "", payload |-> "", seq |-> 0]

VARIABLES
    threadedData,    \* the shared queue
    lock,            \* Unlocked or the holder of the lock
    countDict,       \* topic -> arrivals counted
    fpsDict,         \* topic -> <<count, duration>>, the quotient count/duration
    mqttFirstFrame,  \* the timer has been started
    startTime,       \* the instant the timer was started
    now,             \* datetime.datetime.now(), in seconds
    subscribed,      \* topics the MQTT client is subscribed to
    cbPc,            \* callback -> "idle", "acquire", "locked"
    cbData,          \* callback -> its local variable data
    wPc,             \* process_message: "acquire", "locked", "process", "sleep", "dead"
    wData,           \* process_message: its local variable data
    emitted,         \* the socketio.emit('mqtt_message', ...) calls, in order
    nArrived,        \* history: invocations of handle_mqtt_message
    received,        \* history: topic -> invocations of handle_mqtt_message
    handled,         \* history: seq numbers of the frames whose callback raised or reached the queue, in order
    raised,          \* history: seq numbers of the frames whose callback raised
    appended,        \* history: seq numbers appended to the queue, in order
    dequeued,        \* history: seq numbers removed from the queue, in order
    firstArrivalAt,  \* history: the clock value at the first invocation, -1 before it
    call,            \* a direct call of a parser function: [fn, arg]
    ret,             \* its outcome: [done, value]
    fpc,             \* read_pcd(content, isfilename=True): its position
    fpos,            \* f: the index of the next line f.readline() returns
    fheader,         \* header, without the empty lines parse_header skips
    fline            \* ln

vars ==
    <<threadedData, lock, countDict, fpsDict, mqttFirstFrame, startTime, now,
      subscribed, cbPc, cbData, wPc, wData, emitted, nArrived, received, handled,
      raised, appended, dequeued, firstArrivalAt, call, ret, fpc, fpos, fheader, fline>>

fileVars == <<fpc, fpos, fheader, fline>>
parserVars == <<call, ret, fpc, fpos, fheader, fline>>
statsVars == <<countDict, fpsDict, mqttFirstFrame, startTime>>
historyVars == <<nArrived, received, handled, raised, appended, dequeued, firstArrivalAt>>

\* no direct call of the parser
NoCall == [fn |-> "none", arg |-> <<>>]
NoReturn == [done |-> FALSE, value |-> <<>>]

\* the service after import and the __main__ block
ServiceInit ==
    /\ threadedData = <<>>
    /\ lock = Unlocked
    /\ countDict = [t \in topicsAvailable |-> 0]
    /\ fpsDict = [t \in topicsAvailable |-> <<0, 1>>]
    /\ mqttFirstFrame = FALSE
    /\ startTime = 0
    /\ now = 0
    /\ subscribed = {}
    /\ cbPc = [c \in Callbacks |-> "idle"]
    /\ cbData = [c \in Callbacks |-> NoData]
    /\ wPc = "acquire"
    /\ wData = NoData
    /\ emitted = <<>>
    /\ nArrived = 0
    /\ received = [t \in AllTopics |-> 0]
    /\ handled = <<>>
    /\ raised = {}
    /\ appended = <<>>
    /\ dequeued = <<>>
    /\ firstArrivalAt = -1

\* no file is being read
NoFile == fpc = "none" /\ fpos = 1 /\ fheader = <<>> /\ fline = <<>>

Init == ServiceInit /\ call = NoCall /\ ret = NoReturn /\ NoFile

\* count_fps_datamesh(timeValue, topicValue) run on the statistics st at
\* clock value t: the statistics it leaves and whether it raised
count_fps_datamesh(st, t, timeValue, topicValue) ==
    LET counted == IF topicValue \in DOMAIN st.countDict
                   THEN [st.countDict EXCEPT ![topicValue] = @ + 1]
                   ELSE st.countDict
        first == ~st.mqttFirstFrame
        start == IF first THEN t ELSE st.startTime
        duration == IF first THEN 0 ELSE t - st.startTime
        st1 == [st EXCEPT !.countDict = counted, !.mqttFirstFrame = TRUE,
                          !.startTime = start]
    IN IF timeValue <= duration
       THEN IF topicValue \notin DOMAIN counted
            THEN [st1 EXCEPT !.err = "KeyError"]
            ELSE IF duration = 0
            THEN [st1 EXCEPT !.err = "ZeroDivisionError"]
            ELSE [st1 EXCEPT !.fpsDict = DictSet(st.fpsDict, topicValue,
                                                 <<counted[topicValue], duration>>)]
       ELSE st1

Stats ==
    [countDict |-> countDict, fpsDict |-> fpsDict, mqttFirstFrame |-> mqttFirstFrame,
     startTime |-> startTime, err |-> "none"]

\* handle_mqtt_message up to lock.acquire(): builds data and updates the
\* statistics; an exception of count_fps_datamesh leaves the handler.  The
\* field seq of data is history: it numbers the invocations.
Arrive(c, topic, payload) ==
    LET data == [topic |-> topic, payload |-> payload, seq |-> nArrived + 1]
        st == count_fps_datamesh(Stats, now, Window, topic)
    IN /\ cbPc[c] = "idle"
       /\ topic \in subscribed
       /\ nArrived < MaxArrivals
       /\ countDict' = st.countDict
       /\ fpsDict' = st.fpsDict
       /\ mqttFirstFrame' = st.mqttFirstFrame
       /\ startTime' = st.startTime
       /\ nArrived' = nArrived + 1
       /\ received' = [received EXCEPT ![topic] = @ + 1]
       /\ firstArrivalAt' = IF nArrived = 0 THEN now ELSE firstArrivalAt
       /\ IF st.err = "none"
          THEN /\ cbPc' = [cbPc EXCEPT ![c] = "acquire"]
               /\ cbData' = [cbData EXCEPT ![c] = data]
               /\ UNCHANGED <<handled, raised>>
          ELSE /\ handled' = Append(handled, data.seq)
               /\ raised' = raised \cup {data.seq}
               /\ UNCHANGED <<cbPc, cbData>>
       /\ UNCHANGED <<parserVars, threadedData, lock, now, subscribed, wPc, wData, emitted,
                      appended, dequeued>>

\* len(threadedData) < 100
HasRoomOffByOne(q) == Len(q) <= Capacity
HasRoom(q) == Len(q) < Capacity

\* data = threadedData[0]
FrontNewest(q) == q[Len(q)]
Front(q) == q[1]

\* lock.acquire() returns only when no thread holds the lock
AcquireAnyway(l) == TRUE
CanAcquire(l) == l = Unlocked

\* handle_mqtt_message: lock.acquire()
CbAcquire(c) ==
    /\ cbPc[c] = "acquire"
    /\ CanAcquire(lock)
    /\ lock' = c
    /\ cbPc' = [cbPc EXCEPT ![c] = "locked"]
    /\ UNCHANGED <<parserVars, threadedData, statsVars, now, subscribed, cbData, wPc, wData,
                   emitted, historyVars>>

\* handle_mqtt_message: the bounded append and lock.release()
CbEnqueue(c) ==
    /\ cbPc[c] = "locked"
    /\ IF HasRoom(threadedData)
       THEN /\ threadedData' = Append(threadedData, cbData[c])
            /\ appended' = Append(appended, cbData[c].seq)
       ELSE UNCHANGED <<threadedData, appended>>
    /\ handled' = Append(handled, cbData[c].seq)
    /\ lock' = Unlocked
    /\ cbPc' = [cbPc EXCEPT ![c] = "idle"]
    /\ cbData' = [cbData EXCEPT ![c] = NoData]
    /\ UNCHANGED <<parserVars, statsVars, now, subscribed, wPc, wData, emitted, nArrived,
                   received, raised, dequeued, firstArrivalAt>>

\* process_message: lock.acquire()
WAcquire ==
    /\ wPc = "acquire"
    /\ CanAcquire(lock)
    /\ lock' = Worker
    /\ wPc' = "locked"
    /\ UNCHANGED <<parserVars, threadedData, statsVars, now, subscribed, cbPc, cbData, wData,
                   emitted, historyVars>>

\* process_message: the test of the queue, the dequeue and lock.release()
WTake ==
    /\ wPc = "locked"
    /\ IF Len(threadedData) > 0
       THEN /\ wData' = Front(threadedData)
            /\ threadedData' = Tail(threadedData)
            /\ dequeued' = Append(dequeued, Front(threadedData).seq)
            /\ wPc' = "process"
       ELSE /\ wPc' = "sleep"
            /\ UNCHANGED <<threadedData, wData, dequeued>>
    /\ lock' = Unlocked
    /\ UNCHANGED <<parserVars, statsVars, now, subscribed, cbPc, cbData, emitted, nArrived,
                   received, handled, raised, appended, firstArrivalAt>>

\* zstd.compress(bytes(points, 'utf-8')): an opaque transform of the table
Compress(points) == [zstd |-> points]

\* the dictionary passed to socketio.emit
Envelope(data, values) ==
    [topic |-> data.topic, payload |-> Compress(values.points),
     objects |-> values.objects, time |-> values.time, seq |-> data.seq]

\* read_pcd(data['payload']) for each payload the broker delivers
Decoded == [p \in Payloads |-> read_pcd(Content(p))]

\* process_message: read_pcd, compress and emit; an exception of read_pcd
\* is not caught and ends the thread
WProcess ==
    /\ wPc = "process"
    /\ LET values == Decoded[wData.payload]
       IN IF values.err = "none"
          THEN /\ emitted' = Append(emitted, Envelope(wData, values))
               /\ wPc' = "sleep"
          ELSE /\ wPc' = "dead"
               /\ UNCHANGED emitted
    /\ UNCHANGED <<parserVars, threadedData, lock, statsVars, now, subscribed, cbPc, cbData,
                   wData, historyVars>>

\* process_message: time.sleep(.1) and the next iteration
WSleep ==
    /\ wPc = "sleep"
    /\ wPc' = "acquire"
    /\ UNCHANGED <<parserVars, threadedData, lock, statsVars, now, subscribed, cbPc, cbData,
                   wData, emitted, historyVars>>

\* handle_connect: subscribes to the topics of topic.txt
handle_connect ==
    /\ subscribed' = subscribed \cup topicsAvailable
    /\ UNCHANGED <<parserVars, threadedData, lock, statsVars, now, cbPc, cbData, wPc, wData,
                   emitted, historyVars>>

\* handle_subscribe: a client subscribes to any topic
handle_subscribe(topic) ==
    /\ subscribed' = subscribed \cup {topic}
    /\ UNCHANGED <<parserVars, threadedData, lock, statsVars, now, cbPc, cbData, wPc, wData,
                   emitted, historyVars>>

\* the wall clock
Tick ==
    /\ now + TickSeconds <= MaxTime
    /\ now' = now + TickSeconds
    /\ UNCHANGED <<parserVars, threadedData, lock, statsVars, subscribed, cbPc, cbData, wPc,
                   wData, emitted, historyVars>>

Next ==
    \/ \E c \in Callbacks, topic \in AllTopics, payload \in Payloads : Arrive(c, topic, payload)
    \/ \E c \in Callbacks : CbAcquire(c)
    \/ \E c \in Callbacks : CbEnqueue(c)
    \/ WAcquire
    \/ WTake
    \/ WProcess
    \/ WSleep
    \/ handle_connect
    \/ \E topic \in AllTopics : handle_subscribe(topic)
    \/ Tick

Spec == Init /\ [][Next]_vars

(***************************************************************************)
(* Direct calls of parse_header and build_dtype on enumerated inputs       *)
(***************************************************************************)

\* bounding-box rows per block, fields per layout, largest COUNT value
MaxBoxes == 2
MaxFields == 2
MaxCount == 2

\* all sequences over S of length at most n
RECURSIVE SeqsUpTo(_, _)
SeqsUpTo(S, n) ==
    IF n = 0 THEN {<<>>}
    ELSE LET shorter == SeqsUpTo(S, n - 1)
         IN shorter \cup {Append(q, e) : q \in {r \in shorter : Len(r) = n - 1}, e \in S}

\* header inputs: the field lines, an optional bounding-box block closed by
\* an end line, and the lines that follow it
MinxLine == <<"minx", "maxx", "miny", "maxy", "minz", "maxz">>
BoxRows ==
    {<<"1.0", "2.0", "3.0", "4.0", "5.0", "6.0">>,
     <<"1", "2", "3", "4", "5", "6">>,
     <<"-1.0", "1.0", "-1.0", "1.0", ".7", "7.5">>}
EndLines == {<<"end">>, <<"end", "0">>}
DataLine == <<"DATA", "binary">>
TopicLine == <<"Topic", "lidar">>
TimeLine == <<"Time", "60000000">>
TailLines == {<<>>, <<DataLine>>, <<DataLine, TopicLine, TimeLine>>}

HeaderInputs ==
    {GoodHeader \o t : t \in TailLines}
    \cup {GoodHeader \o <<MinxLine>> \o rows \o <<e>> \o t :
             rows \in SeqsUpTo(BoxRows, MaxBoxes), e \in EndLines, t \in TailLines}

\* layout inputs: fields, count, type and size of equal length
FieldPool == {"x", "y"}
CountPool == {ToString(c) : c \in 0..MaxCount}
TypeSizePool == {<<"F", "4">>, <<"F", "8">>, <<"U", "1">>, <<"I", "2">>, <<"F", "2">>}
FieldDecls == FieldPool \X CountPool \X TypeSizePool

MetadataOf(decls) ==
    [fields |-> [i \in 1..Len(decls) |-> decls[i][1]],
     count  |-> [i \in 1..Len(decls) |-> decls[i][2]],
     type   |-> [i \in 1..Len(decls) |-> decls[i][3][1]],
     size   |-> [i \in 1..Len(decls) |-> decls[i][3][2]]]

LayoutInputs == {MetadataOf(d) : d \in SeqsUpTo(FieldDecls, MaxFields)}

\* layout inputs whose sequences differ in length: one of the four has lost
\* its last element
DropLast(q) == SubSeq(q, 1, Len(q) - 1)
RaggedInputs ==
    {[m EXCEPT ![k] = DropLast(m[k])] :
        m \in {l \in LayoutInputs : Len(l.fields) > 0},
        k \in {"fields", "count", "type", "size"}}

\* frames: rows of a binary body, at most MaxRows announced by POINTS and one
\* more than that supplied
MaxRows == 2

\* the float32 bytes of 1.0, 2.0, 3.0, 4.0, 5.0 and of 50.0
RowX == <<<<0, 0, 128, 63>>, <<0, 0, 0, 64>>, <<0, 0, 64, 64>>, <<0, 0, 128, 64>>,
          <<0, 0, 160, 64>>>>
F32Two == <<0, 0, 0, 64>>
F32Three == <<0, 0, 64, 64>>
F32Fifty == <<0, 0, 72, 66>>

\* the declaration of an rgb field: none, or its TYPE and SIZE tokens
RgbDecls == {<<>>, <<"F", "4">>, <<"U", "4">>, <<"I", "4">>}
\* the four bytes of an rgb value: red 10, green 20, blue 30 under two top bytes
RgbValues == {<<30, 20, 10, 0>>, <<30, 20, 10, 255>>}
Ragged == {"none", "field", "count"}
Encodings == {"binary", "ascii", "binary_compressed"}

FrameHeader(rgb, ragged, points, encoding) ==
    << <<"VERSION", ".7">>,
       <<"FIELDS", "x", "y", "z", "intensity">>
           \o (IF rgb # <<>> \/ ragged = "field" THEN <<"rgb">> ELSE <<>>),
       <<"SIZE", "4", "4", "4", "4">> \o (IF rgb # <<>> THEN <<rgb[2]>> ELSE <<>>),
       <<"TYPE", "F", "F", "F", "F">> \o (IF rgb # <<>> THEN <<rgb[1]>> ELSE <<>>),
       <<"COUNT", "1", "1", "1", "1">>
           \o (IF rgb # <<>> \/ ragged = "count" THEN <<"1">> ELSE <<>>),
       <<"WIDTH", ToString(points)>>, <<"HEIGHT", "1">>, <<"POINTS", ToString(points)>>,
       <<"DATA", encoding>> >>

\* the bytes of n binary rows, and of the text row 1.00 2.00 3.00 50.00
RECURSIVE BinaryRows(_, _, _)
BinaryRows(n, rgb, v) ==
    IF n = 0 THEN <<>>
    ELSE BinaryRows(n - 1, rgb, v)
         \o RowX[n] \o F32Two \o F32Three \o F32Fifty \o (IF rgb # <<>> THEN v ELSE <<>>)

AsciiRowLine == <<"1.00", "2.00", "3.00", "50.00">>
AsciiRow ==
    <<49, 46, 48, 48, 32, 50, 46, 48, 48, 32, 51, 46, 48, 48, 32, 53, 48, 46, 48, 48>>

\* an rgb field is declared in full, or the four base fields raggedly
FrameVariants == {d \in RgbDecls \X Ragged : d[1] = <<>> \/ d[2] = "none"}

\* a frame with its Topic and Time lines: the body follows the Time line
AnnotatedFrames ==
    {[lines |-> FrameHeader(d[1], d[2], points, "binary") \o <<TopicLine, TimeLine>>,
      body |-> SubSeq(BinaryRows(n, d[1], v), 1, Len(BinaryRows(n, d[1], v)) - cut)] :
        d \in FrameVariants, v \in RgbValues, points \in 0..MaxRows, n \in 0..(MaxRows + 1),
        cut \in 0..1}
    \cup {[lines |-> FrameHeader(<<>>, "none", 1, e) \o <<TopicLine, TimeLine>>,
           body |-> AsciiRow] : e \in Encodings \ {"binary"}}

\* a frame without them: the rows are lines of content.split(b'\n')
PlainAsciiFrame ==
    [lines |-> FrameHeader(<<>>, "none", 1, "ascii") \o <<AsciiRowLine>>, body |-> <<>>]
BareFrames ==
    {PlainAsciiFrame,
     [lines |-> FrameHeader(<<>>, "none", 1, "binary"), body |-> <<>>],
     [lines |-> DropLast(FrameHeader(<<>>, "none", 1, "binary")), body |-> <<>>]}

FrameInputs == AnnotatedFrames \cup BareFrames

\* files: the same contents, lines first and the body after the Time line
FileInputs == FrameInputs

ParserCalls ==
    {[fn |-> "parse_header", arg |-> h] : h \in HeaderInputs}
    \cup {[fn |-> "build_dtype", arg |-> m] : m \in LayoutInputs \cup RaggedInputs}
    \cup {[fn |-> "read_pcd", arg |-> c] : c \in FrameInputs}
    \cup {[fn |-> "read_pcd_file", arg |-> c] : c \in FileInputs}

\* with open(content, 'rb') as f: header = []
ParserInit ==
    /\ ServiceInit
    /\ call \in ParserCalls
    /\ ret = NoReturn
    /\ fpc = IF call.fn = "read_pcd_file" THEN "header" ELSE "none"
    /\ fpos = 1
    /\ fheader = <<>>
    /\ fline = <<>>

serviceVars ==
    <<threadedData, lock, countDict, fpsDict, mqttFirstFrame, startTime, now,
      subscribed, cbPc, cbData, wPc, wData, emitted, nArrived, received, handled,
      raised, appended, dequeued, firstArrivalAt>>

CallParseHeader ==
    /\ call.fn = "parse_header"
    /\ ~ret.done
    /\ ret' = [done |-> TRUE, value |-> parse_header(call.arg)]
    /\ UNCHANGED <<call, fileVars, serviceVars>>

CallBuildDtype ==
    /\ call.fn = "build_dtype"
    /\ ~ret.done
    /\ ret' = [done |-> TRUE, value |-> build_dtype(call.arg)]
    /\ UNCHANGED <<call, fileVars, serviceVars>>

\* read_pcd(content) for each frame
DecodedFrame == [c \in FrameInputs |-> read_pcd(c)]

CallReadPcd ==
    /\ call.fn = "read_pcd"
    /\ ~ret.done
    /\ ret' = [done |-> TRUE, value |-> DecodedFrame[call.arg]]
    /\ UNCHANGED <<call, fileVars, serviceVars>>

\* ln = f.readline().strip().decode(): the next line, '' at end of file
FileReadLine ==
    /\ call.fn = "read_pcd_file"
    /\ fpc \in {"header", "time"}
    /\ fline' = IF fpos <= Len(call.arg.lines) THEN call.arg.lines[fpos] ELSE <<>>
    /\ fpos' = IF fpos <= Len(call.arg.lines) THEN fpos + 1 ELSE fpos
    /\ fpc' = IF fpc = "header" THEN "headerTest" ELSE "timeTest"
    /\ UNCHANGED <<call, ret, fheader, serviceVars>>

\* the header lists a file can give, and parse_header and build_dtype on them
FileHeaders == UNION {{Prefix(c.lines, i) : i \in 0..Len(c.lines)} : c \in FileInputs}
ParsedHeader == [h \in FileHeaders |-> parse_header(h)]
BuiltDtype == [h \in FileHeaders |-> build_dtype(ParsedHeader[h].md)]

\* header.append(ln) and the test for the DATA line, lines 136-140
FileHeaderTest ==
    /\ fpc = "headerTest"
    /\ LET hd == IF fline = <<>> THEN fheader ELSE Append(fheader, fline)
       IN /\ fheader' = hd
          /\ IF ~StartsWithDATA(fline)
             THEN fpc' = "header" /\ UNCHANGED ret
             ELSE IF ParsedHeader[hd].err # "none"
             THEN fpc' = "done" /\ ret' = [done |-> TRUE, value |-> Raised(ParsedHeader[hd].err)]
             ELSE IF BuiltDtype[hd].err # "none"
             THEN fpc' = "done" /\ ret' = [done |-> TRUE, value |-> Raised(BuiltDtype[hd].err)]
             ELSE fpc' = "time" /\ UNCHANGED ret
    /\ UNCHANGED <<call, fpos, fline, serviceVars>>

\* the test for the Time line, lines 143-144
FileTimeTest ==
    /\ fpc = "timeTest"
    /\ fpc' = IF StartsWithTime(fline) THEN "decode" ELSE "time"
    /\ UNCHANGED <<call, ret, fpos, fheader, fline, serviceVars>>

\* lines 145-179 and 241-274 on the rest of the file
FileDecode ==
    /\ fpc = "decode"
    /\ fpc' = "done"
    /\ ret' = [done |-> TRUE,
               value |-> Raised(FileDecodeError(ParsedHeader[fheader].md, BuiltDtype[fheader],
                                                call.arg.body))]
    /\ UNCHANGED <<call, fpos, fheader, fline, serviceVars>>

FileStep == FileReadLine \/ FileHeaderTest \/ FileTimeTest \/ FileDecode

ParserNext == CallParseHeader \/ CallBuildDtype \/ CallReadPcd \/ FileStep

\* a call that can take a step takes it
ParserFairSpec ==
    ParserInit /\ [][ParserNext]_vars /\ WF_vars(CallReadPcd) /\ WF_vars(FileStep)

ParserSpec == ParserInit /\ [][ParserNext]_vars

\* the steps of the worker thread, and of the callbacks past their
\* statistics update
WorkerStep == WAcquire \/ WTake \/ WProcess \/ WSleep
CallbackStep == \E c \in Callbacks : CbAcquire(c) \/ CbEnqueue(c)

\* the scheduling of the threads: a thread that can take a step takes it
FairSpec == Spec /\ WF_vars(WorkerStep) /\ WF_vars(CallbackStep)

(***************************************************************************)
(* Properties                                                              *)
(***************************************************************************)

Range(q) == {q[i] : i \in 1..Len(q)}
Min(a, b) == IF a < b THEN a ELSE b
QueueSeqs == [i \in 1..Len(threadedData) |-> threadedData[i].seq]
PosIn(q, v) == CHOOSE i \in 1..Len(q) : q[i] = v
AllIdle == \A c \in Callbacks : cbPc[c] = "idle"
\* frames that reached the queue's critical section and were not appended
DroppedSeqs == Range(handled) \ (raised \cup Range(appended))

\* C1: in every reachable state the shared queue holds at most Capacity
\* entries, whatever the interleaving of the callbacks and the drain loop.
C1_QueueBounded == Len(threadedData) <= Capacity

\* the queue is full and an arrival that found it full has been dropped
C1_Witness ==
    /\ Len(threadedData) = Capacity
    /\ DroppedSeqs # {}

\* C2: after N arrivals with no draining the queue holds exactly the first
\* min(N, capacity) arrived frames, in arrival order.
C2_FirstArrivalsKept ==
    (AllIdle /\ dequeued = <<>>) =>
        QueueSeqs = SubSeq(handled, 1, Min(nArrived, Capacity))

\* C3: the drain loop dequeues, and emits, frames in the order in which they
\* were appended to the queue.
C3_Fifo ==
    /\ Len(dequeued) <= Len(appended)
    /\ \A i \in 1..Len(dequeued) : dequeued[i] = appended[i]
    /\ \A i, j \in 1..Len(emitted) :
          i < j => PosIn(appended, emitted[i].seq) < PosIn(appended, emitted[j].seq)

\* two frames appended in the opposite order of their arrival were both
\* dequeued and emitted
C3_Witness ==
    /\ Len(emitted) >= 2
    /\ Len(appended) >= 2
    /\ appended[1] > appended[2]

\* C4: a failing decode of a dequeued frame is caught and the drain loop
\* goes on to its next iteration.
C4_FailureIsolated ==
    [][(wPc = "process" /\ Decoded[wData.payload].err # "none")
          => wPc' \in {"process", "sleep"}]_vars

\* C5: every invocation of the arrival handler updates the statistics and
\* then goes on to the lock with its frame: the statistics update never
\* prevents the enqueue.
C5_StatsNeverPreventEnqueue ==
    [][nArrived' = nArrived + 1
          => \E c \in Callbacks : cbPc'[c] = "acquire" /\ cbData'[c].seq = nArrived']_vars

\* C6: under weak fairness every frame appended to the queue is eventually
\* dequeued.
C6_EveryAppendedFrameDequeued ==
    \A i \in 1..MaxArrivals : (i \in Range(appended)) ~> (i \in Range(dequeued))

\* C7: the per-topic counter equals the number of arrivals received on that
\* topic, for every topic on which frames arrive.
C7_ArrivalsCounted ==
    \A t \in AllTopics :
        received[t] > 0 => (t \in DOMAIN countDict /\ countDict[t] = received[t])

\* C8: the timer is started at the very first arrival and never restarted,
\* and an arrival on topic t at elapsed time e sets fps[t] to
\* arrivalCount[t] / e exactly when e >= Window, else leaves fps unchanged.
C8_FpsEstimate ==
    [][\A t \in AllTopics :
          received'[t] = received[t] + 1 =>
              LET e == now - firstArrivalAt'
              IN /\ startTime' = firstArrivalAt'
                 /\ IF e >= Window
                    THEN /\ t \in DOMAIN fpsDict'
                         /\ fpsDict'[t][1] * e = received'[t] * fpsDict'[t][2]
                    ELSE fpsDict' = fpsDict]_vars

\* the start-marker line and the end line of the bounding-box block
IsStartMarker(ln) == ReMatch(ln) /\ ReKey(ln) = "minx"
HasBlock(lines) == \E i \in 1..Len(lines) : IsStartMarker(lines[i])
StartIdx(lines) ==
    CHOOSE i \in 1..Len(lines) :
        IsStartMarker(lines[i]) /\ \A j \in 1..(i - 1) : ~IsStartMarker(lines[j])
EndIdx(lines) ==
    CHOOSE i \in (StartIdx(lines) + 1)..Len(lines) :
        lines[i][1] = "end" /\ \A j \in (StartIdx(lines) + 1)..(i - 1) : lines[j][1] # "end"

\* one BoundingBox per line strictly between the two, in order
BlockObjects(lines) ==
    IF ~HasBlock(lines) THEN <<>>
    ELSE [k \in 1..(EndIdx(lines) - StartIdx(lines) - 1) |-> BBoxOf(lines[StartIdx(lines) + k])]

\* the key/value lines after the end line
AfterBlock(lines) ==
    IF ~HasBlock(lines) THEN {}
    ELSE {i \in (EndIdx(lines) + 1)..Len(lines) : ReMatch(lines[i])}

\* C9: parse_header yields exactly one BoundingBox, of class "Object", per
\* line strictly between the start-marker line and the end line, in order,
\* an empty objects sequence without a block, and still parses the header
\* lines after the end line as key/value metadata.
C9_BBoxBlockParsed ==
    (call.fn = "parse_header" /\ ret.done) =>
        /\ ret.value.err = "none"
        /\ ret.value.md.objects = BlockObjects(call.arg)
        /\ \A k \in 1..Len(ret.value.md.objects) : ret.value.md.objects[k].class = "Object"
        /\ \A i \in AfterBlock(call.arg) :
              ReKey(call.arg[i]) \in {"data", "topic", "time"}
                  => ReKey(call.arg[i]) \in DOMAIN ret.value.md

\* the layout entries expected of source field i, written out
Suffix4 == <<"0000", "0001", "0002", "0003">>
ExpectedName(md, i, k) ==
    IF IntOf(md.count[i]) = 1 THEN md.fields[i] ELSE md.fields[i] \o "_" \o Suffix4[k + 1]
RECURSIVE CountBefore(_, _)
CountBefore(md, i) == IF i = 1 THEN 0 ELSE CountBefore(md, i - 1) + IntOf(md.count[i - 1])
TotalCount(md) == CountBefore(md, Len(md.fields) + 1)
EqualLength(md) ==
    Len(md.fields) = Len(md.count) /\ Len(md.count) = Len(md.type) /\ Len(md.type) = Len(md.size)
Recognized(md) ==
    EqualLength(md) /\ \A i \in 1..Len(md.fields) : <<md.type[i], IntOf(md.size[i])>> \in PcdTypes
LayoutAsClaimed(md, r) ==
    /\ r.err = "none"
    /\ Len(r.names) = TotalCount(md)
    /\ Len(r.types) = TotalCount(md)
    /\ \A i \in 1..Len(md.fields) : \A k \in 0..(IntOf(md.count[i]) - 1) :
          /\ r.names[CountBefore(md, i) + k + 1] = ExpectedName(md, i, k)
          /\ r.types[CountBefore(md, i) + k + 1]
                = pcd_type_to_numpy_type(md.type[i], IntOf(md.size[i]))

\* the entry names of two different positions differ
DistinctEntries(md) ==
    \A i, j \in 1..Len(md.fields) :
        \A k \in 0..(IntOf(md.count[i]) - 1), l \in 0..(IntOf(md.count[j]) - 1) :
            ExpectedName(md, i, k) = ExpectedName(md, j, l) => (i = j /\ k = l)

\* C10 as stated: for every fields/count/type/size of equal length with
\* recognized (type, size) pairs build_dtype emits sum(count) entries, field i
\* contributing fields[i] when count[i] = 1 and else fields[i]_0000 ..
\* fields[i]_(count[i]-1), all of the scalar type of (type[i], size[i]), in
\* source field order then sub-index order.
C10_LayoutForEveryInput ==
    (call.fn = "build_dtype" /\ ret.done /\ Recognized(call.arg))
        => LayoutAsClaimed(call.arg, ret.value)

\* C10, amended: the same, for inputs whose entry names are pairwise
\* distinct.
C10_LayoutForDistinctNames ==
    (call.fn = "build_dtype" /\ ret.done /\ Recognized(call.arg) /\ DistinctEntries(call.arg))
        => LayoutAsClaimed(call.arg, ret.value)

\* a flattened field followed by a single-count field has been laid out
C10_Witness ==
    /\ call.fn = "build_dtype" /\ ret.done
    /\ Recognized(call.arg) /\ DistinctEntries(call.arg)
    /\ Len(call.arg.fields) = 2
    /\ IntOf(call.arg.count[1]) = 2 /\ IntOf(call.arg.count[2]) = 1
    /\ ret.value.names = <<"x_0000", "x_0001", "y">>

\* the metadata of a frame's header lines, and the table its binary body
\* holds under the layout of that metadata
FrameMetadata(content) == parse_header(content.lines).md
FrameLayout(content) == build_dtype(FrameMetadata(content))
IsBinary(content) ==
    "data" \in DOMAIN FrameMetadata(content) /\ FrameMetadata(content).data = <<"binary">>
RowWidth(content) == itemsize(FrameLayout(content))

\* C11: when the fields, count, type and size sequences of a header do not
\* all have the same length, building the layout and decoding the frame fail.
C11_RaggedHeaderFails ==
    /\ (call.fn = "build_dtype" /\ ret.done /\ ~EqualLength(call.arg))
          => ret.value.err # "none"
    /\ (call.fn = "read_pcd" /\ ret.done /\ ~EqualLength(FrameMetadata(call.arg)))
          => ret.value.err # "none"

\* a binary frame whose header parses and gives a layout
BinaryFrame(content) ==
    /\ parse_header(content.lines).err = "none"
    /\ {"fields", "type", "size", "points"} \subseteq DOMAIN FrameMetadata(content)
    /\ IsBinary(content)
    /\ FrameLayout(content).err = "none"
ExpectedBytes(content) == FrameMetadata(content).points * RowWidth(content)

\* C12: a binary frame whose body holds fewer than points * rowWidth bytes
\* fails to decode and returns no table, also when the body is a whole
\* number of rows.
C12_TruncatedBodyFails ==
    (call.fn = "read_pcd" /\ ret.done /\ BinaryFrame(call.arg)
        /\ Len(call.arg.body) < ExpectedBytes(call.arg))
        => (ret.value.err # "none" /\ ret.value.table.rows = <<>>)

\* C13: a successful decode of a binary frame returns exactly points rows,
\* those of the first points * rowWidth bytes of the body.
C13_RowCountHonorsPoints ==
    (call.fn = "read_pcd" /\ ret.done /\ BinaryFrame(call.arg) /\ ret.value.err = "none")
        => /\ Len(ret.value.table.rows) = FrameMetadata(call.arg).points
           /\ Len(call.arg.body) >= ExpectedBytes(call.arg)
           /\ ret.value.table.rows
                = UnpackRGB([columns |-> FrameLayout(call.arg).names,
                             rows |-> FromString(SubSeq(call.arg.body, 1, ExpectedBytes(call.arg)),
                                                 FrameLayout(call.arg))]).rows

\* C14: the ascii frame without Topic line, Time line and bounding-box
\* block, with the body row 1.00 2.00 3.00 50.00, decodes to exactly one row
\* x = 1.0, y = 2.0, z = 3.0, intensity = 50.0 and no objects.
C14_PlainAsciiFrameDecodes ==
    (call.fn = "read_pcd" /\ call.arg = PlainAsciiFrame /\ ret.done)
        => /\ ret.value.err = "none"
           /\ Len(ret.value.table.rows) = 1
           /\ ret.value.points = [x |-> <<RowX[1]>>, y |-> <<F32Two>>, z |-> <<F32Three>>,
                                  intensity |-> <<F32Fifty>>]
           /\ ret.value.objects = <<>>

\* the table decoded from the body, before the rgb column is unpacked
RawTable(content) == FromString(content.body, FrameLayout(content))

\* C15: when the decoded table has an rgb column, every row of 32-bit pattern
\* v gets red = (v >> 16) & 255, green = (v >> 8) & 255, blue = v & 255
\* whatever the top 8 bits, the columns red, green, blue are appended and rgb
\* is removed; a table without an rgb column keeps its columns.
C15_RgbUnpacked ==
    (call.fn = "read_pcd" /\ ret.done /\ ret.value.err = "none")
        => LET names == FrameLayout(call.arg).names
               raw == RawTable(call.arg)
               table == ret.value.table
           IN IF HasColumn(names, "rgb")
              THEN /\ table.columns = DropName(names, "rgb") \o <<"red", "green", "blue">>
                   /\ Len(table.rows) = Len(raw)
                   /\ \A r \in 1..Len(raw) :
                         LET v == ColOf(raw[r], "rgb").bytes
                         IN /\ Columns(table.rows[r]) = table.columns
                            /\ ColOf(table.rows[r], "red").bytes = <<v[3]>>
                            /\ ColOf(table.rows[r], "green").bytes = <<v[2]>>
                            /\ ColOf(table.rows[r], "blue").bytes = <<v[1]>>
              ELSE table = [columns |-> names, rows |-> raw]

\* the threads that are between lock.acquire() and lock.release()
Holders ==
    {c \in Callbacks : cbPc[c] = "locked"} \cup (IF wPc = "locked" THEN {Worker} ELSE {})

\* C16: the queue is read or changed only by the thread that holds the lock,
\* at most one thread holds it, and the drain loop releases it on both
\* branches of an iteration, before it decodes, compresses or emits.
C16_LockDiscipline ==
    /\ [](/\ Cardinality(Holders) <= 1
          /\ Holders = IF lock = Unlocked THEN {} ELSE {lock}
          /\ wPc \in {"process", "sleep", "dead"} => lock # Worker)
    /\ [][/\ threadedData' # threadedData =>
                \/ lock \in Callbacks /\ cbPc[lock] = "locked" /\ cbPc'[lock] = "idle"
                \/ lock = Worker /\ wPc = "locked" /\ wPc' = "process"
          /\ (wPc = "locked" /\ wPc' # "locked") =>
                (lock = Worker /\ lock' = Unlocked /\ wPc' \in {"process", "sleep"})
          /\ emitted' # emitted => lock # Worker]_vars

\* the drain loop decodes a frame while one callback appends under the lock
\* and the other waits for it
C16_Witness ==
    /\ wPc = "process"
    /\ \E c, d \in Callbacks : cbPc[c] = "locked" /\ lock = c /\ cbPc[d] = "acquire"

\* C17: the drain loop idles only in an iteration that found the queue
\* empty; after it has dequeued and emitted a frame it goes to the next
\* lock acquisition with no idle step in between.
C17_IdleOnlyWhenEmpty ==
    [][/\ (wPc # "sleep" /\ wPc' = "sleep") => (wPc = "locked" /\ threadedData = <<>>)
       /\ (wPc = "process" /\ Len(emitted') > Len(emitted)) => wPc' = "acquire"]_vars

\* the state of the header loop before and after its iteration on line i
BeforeLine(lines, i) == HeaderLoop(HeaderStart, Prefix(lines, i - 1))
AfterLine(lines, i) == HeaderLine(BeforeLine(lines, i), lines[i])
\* line i is consumed as a bounding-box row
IsBoxRow(lines, i) ==
    /\ BeforeLine(lines, i).err = "none"
    /\ BeforeLine(lines, i).searchSwitch
    /\ ~StartsWithEnd(lines[i])
    /\ AfterLine(lines, i).err = "none"
OnlyObjectsChanged(before, after) ==
    /\ after.searchSwitch = before.searchSwitch
    /\ DOMAIN after.md = DOMAIN before.md
    /\ \A k \in DOMAIN before.md \ {"objects"} : after.md[k] = before.md[k]

\* C18: while the header lines are scanned, capture mode is switched on by a
\* line whose key is minx and off by a line equal to end, and a line consumed
\* as a bounding-box row changes nothing but the objects sequence.
C18_CaptureMode ==
    (call.fn = "parse_header" /\ ret.done) =>
        \A i \in 1..Len(call.arg) :
            BeforeLine(call.arg, i).err = "none" =>
                /\ (~BeforeLine(call.arg, i).searchSwitch /\ IsStartMarker(call.arg[i]))
                      => AfterLine(call.arg, i).searchSwitch
                /\ call.arg[i] = <<"end">> => ~AfterLine(call.arg, i).searchSwitch
                /\ IsBoxRow(call.arg, i)
                      => OnlyObjectsChanged(BeforeLine(call.arg, i), AfterLine(call.arg, i))

\* C19: every call of read_pcd, on bytes or on a file, returns or raises
\* after finitely many steps, also when the input has no DATA line or no
\* Time line.
C19_DecodeTerminates ==
    (call.fn \in {"read_pcd", "read_pcd_file"}) ~> ret.done

====
